---- MODULE Spec2Model ----
(***************************************************************************)
(* Model of notebooks/advection-diffusion-reaction.py: the time-stepping   *)
(* loop (lines 412-444) that drives NavierStokesSolver.advance() (lines    *)
(* 370-388) and the nonlinear reaction solve, from the state left by the   *)
(* constructor call nss = NavierStokesSolver(mesh, dt) (line 416).         *)
(*                                                                         *)
(* The finite-element library is external.  A discrete field (a dolfin     *)
(* Function) is represented by its provenance: which solve produced its    *)
(* degrees of freedom, in which loop iteration, whether that solve         *)
(* converged, and the set of input data the values depend on.  An          *)
(* assembled vector records the coefficient fields its form read at        *)
(* assembly time and the boundary conditions applied to it since.          *)
(***************************************************************************)
EXTENDS Integers, Sequences, FiniteSets, TLC

\* ------------------------------------------------------------------------
\* Numbers.  num_steps / 100 is a true division whose result (5.0) is exact;
\* it is kept as a fraction [n, d] in lowest terms.
\* ------------------------------------------------------------------------
RECURSIVE Gcd(_, _)
Gcd(a, b) == IF b = 0 THEN a ELSE Gcd(b, a % b)

Frac(a, b) == [n |-> a \div Gcd(a, b), d |-> b \div Gcd(a, b)]

\* i % r == 0 for an integer i and a positive fraction r
ModIsZero(i, r) == (i * r.d) % r.n = 0

\* ------------------------------------------------------------------------
\* Floating point.  T, dt and t are Python floats (IEEE 754 binary64,
\* round to nearest, ties to even).  Every value they take is a multiple
\* of 2^-62 below 1; it is kept as that multiple, an integer below 2^63
\* written as three limbs <<high, middle, low>> of 21 bits.
\* ------------------------------------------------------------------------
LimbBase == 2^21

\* number of bits of the significand
Precision == 53

FlZero == <<0, 0, 0>>

\* carries of the low and middle limb moved up
Carry(x) ==
  LET c1 == x[3] \div LimbBase
      c2 == (x[2] + c1) \div LimbBase
  IN  <<x[1] + c2, (x[2] + c1) % LimbBase, x[3] % LimbBase>>

\* exact sum and exact product with a small integer
Add(x, y) == Carry(<<x[1] + y[1], x[2] + y[2], x[3] + y[3]>>)

MulInt(x, n) == Carry(<<x[1] * n, x[2] * n, x[3] * n>>)

RECURSIVE BitLen(_)
BitLen(n) == IF n = 0 THEN 0 ELSE 1 + BitLen(n \div 2)

Bits(x) ==
  IF x[1] > 0 THEN 42 + BitLen(x[1])
  ELSE IF x[2] > 0 THEN 21 + BitLen(x[2]) ELSE BitLen(x[3])

\* rounding of an exact result to Precision significant bits, ties to even;
\* at most 10 bits are dropped, all of them in the low limb
Round(x) ==
  LET s == Bits(x) - Precision
      p == 2^s
      r == x[3] % p
      odd == (x[3] \div p) % 2 = 1
  IN  IF s <= 0 THEN x
      ELSE IF 2 * r > p \/ (2 * r = p /\ odd)
           THEN Carry(<<x[1], x[2], x[3] - r + p>>)
           ELSE <<x[1], x[2], x[3] - r>>

\* x + y
FlAdd(x, y) == Round(Add(x, y))

\* n * x, the integer n being converted exactly
FlMulInt(n, x) == Round(MulInt(x, n))

\* x / n by long division; the quotient has Precision bits before its binary
\* point (2^52 <= x / n < 2^53 in units of 2^-62), so it is rounded to an
\* integer
FlDivInt(x, n) ==
  LET q1 == x[1] \div n
      r1 == x[1] % n
      q2 == (r1 * LimbBase + x[2]) \div n
      r2 == (r1 * LimbBase + x[2]) % n
      q3 == (r2 * LimbBase + x[3]) \div n
      r3 == (r2 * LimbBase + x[3]) % n
  IN  IF 2 * r3 > n \/ (2 * r3 = n /\ q3 % 2 = 1)
      THEN Add(<<q1, q2, q3>>, <<0, 0, 1>>)
      ELSE <<q1, q2, q3>>

\* T = 0.5, final time: 2^61 units of 2^-62
T == <<2^19, 0, 0>>

\* number of time steps
num_steps == 500

\* dt = T / num_steps, time step size
dt == FlDivInt(T, num_steps)

\* out_interval = num_steps / 100
out_interval == Frac(num_steps, 100)

VARIABLES
  pc,           \* position of the script
  range_it,     \* next index the iterator of range(num_steps) yields
  k,            \* the binding of the global name k
  t,            \* the float t
  consts,       \* the Constant objects holding a step size, by identity
  F,            \* the Constant object the residual F captured as k
  DT,           \* nss.DT
  A1, A2, A3,   \* nss.A1, nss.A2, nss.A3
  b1, b2, b3,   \* locals of advance()
  u_k, u_, p_k, p_,   \* nss.u_k, nss.u_, nss.p_k, nss.p_
  w, u, u_n,    \* advecting velocity, concentrations at levels n+1 and n
  vtkfile_u_1, vtkfile_u_2, vtkfile_u_3,   \* records written to each file
  calls,        \* solver calls started in the current iteration, in order
  n_advance,    \* advance() calls that have returned
  n_reaction,   \* reaction solves started
  exc           \* the solver call whose exception is propagating, or "none"

nsvars == <<DT, A1, A2, A3, b1, b2, b3, u_k, u_, p_k, p_>>

adrvars == <<w, u, u_n>>

files == <<vtkfile_u_1, vtkfile_u_2, vtkfile_u_3>>

hist == <<calls, n_advance, n_reaction, exc>>

vars == <<pc, range_it, k, t, consts, F, nsvars, adrvars, files, hist>>

\* ------------------------------------------------------------------------
\* Boundary conditions of the Navier-Stokes solver
\* ------------------------------------------------------------------------
bcu == {"bcu_inflow", "bcu_walls", "bcu_cylinder"}

bcp == {"bcp_outflow"}

\* ------------------------------------------------------------------------
\* Fields
\* ------------------------------------------------------------------------
\* Function(space): all degrees of freedom zero; origin names the data the
\* zero stands for in a dependency set.
ZeroFunction(origin) == [by |-> "zero", at |-> -1, ok |-> TRUE, deps |-> {origin}]

\* the result a solve writes into its target vector
Solution(name, iter, converged, deps) ==
  [by |-> name, at |-> iter, ok |-> converged, deps |-> deps]

\* a vector that has not been assembled
NoVector == [asm |-> FALSE, rd |-> <<>>, coef |-> {}, bcs |-> {}]

\* assemble(L): the coefficient fields read by the form L are evaluated now
Assemble(reads, coef) == [asm |-> TRUE, rd |-> reads, coef |-> coef, bcs |-> {}]

ApplyBCs_Skipped(b, bcs) == b

\* [bc.apply(b) for bc in bcs]
ApplyBCs(b, bcs) == [b EXCEPT !.bcs = @ \cup bcs]

\* the input data a linear system A x = b depends on
SystemDeps(A, b) ==
  UNION {b.rd[x].deps : x \in DOMAIN b.rd}
    \cup A.coef \cup A.bcs \cup b.coef \cup b.bcs

\* constant coefficients of the linear forms L1, L2, L3
L1Coef == {"rho", "DT", "mu", "f", "n"}

L2Coef == {"DT"}

L3Coef == {"DT"}

\* coefficient fields of the linear forms L1, L2, L3
L1Reads_Feedback(uk, pk) == [u_k |-> uk, p_k |-> pk, u |-> u]

L1Reads(uk, pk) == [u_k |-> uk, p_k |-> pk]

L2Reads(pk, ut) == [p_k |-> pk, u_ |-> ut]

L3Reads_NewPressureOnly(ut, pn, pk) == [u_ |-> ut, p_ |-> pn, p_k |-> pn]

L3Reads(ut, pn, pk) == [u_ |-> ut, p_ |-> pn, p_k |-> pk]

\* coefficient fields of the nonlinear residual F; u is also the initial
\* guess of the Newton iteration
FReads(uu, un, ww) == [u |-> uu, u_n |-> un, w |-> ww]

\* constant coefficients and source terms of F
FCoef == {"k", "eps", "K", "f_1", "f_2", "f_3"}

FDeps(rd) == UNION {rd[x].deps : x \in DOMAIN rd} \cup FCoef

\* identities of the two Constant(dt) objects
kConst == 1

dtConst == 2

\* NavierStokesSolver.__init__: A1 and A2 get their boundary conditions,
\* A3 gets none; a1 contains 1/DT, a2 and a3 contain no coefficient.
InitA1 == [coef |-> {"rho", "DT", "mu"}, bcs |-> bcu]

InitA2 == [coef |-> {}, bcs |-> bcp]

InitA3 == [coef |-> {}, bcs |-> {}]

Init ==
  /\ pc = "for"
  /\ range_it = 0
  /\ k = [tag |-> "Constant", val |-> kConst]
  /\ t = FlZero
  /\ consts = (kConst :> dt) @@ (dtConst :> dt)
  /\ F = [k |-> kConst]
  /\ DT = dtConst
  /\ A1 = InitA1
  /\ A2 = InitA2
  /\ A3 = InitA3
  /\ b1 = NoVector /\ b2 = NoVector /\ b3 = NoVector
  /\ u_k = ZeroFunction("u_k0") /\ u_ = ZeroFunction("u_0")
  /\ p_k = ZeroFunction("p_k0") /\ p_ = ZeroFunction("p_0")
  /\ w = ZeroFunction("w0")
  /\ u = ZeroFunction("u0")
  /\ u_n = ZeroFunction("u_n0")
  /\ vtkfile_u_1 = <<>> /\ vtkfile_u_2 = <<>> /\ vtkfile_u_3 = <<>>
  /\ calls = <<>>
  /\ n_advance = 0
  /\ n_reaction = 0
  /\ exc = "none"

\* ------------------------------------------------------------------------
\* The time-stepping loop
\* ------------------------------------------------------------------------
ForNext_AssignsConstant ==
  /\ pc = "for"
  /\ range_it < num_steps
  /\ k' = [tag |-> "int", val |-> range_it]
  /\ consts' = [consts EXCEPT ![kConst] = <<0, 0, range_it>>]
  /\ range_it' = range_it + 1
  /\ calls' = <<>>
  /\ pc' = "t_incr"
  /\ UNCHANGED <<t, F, nsvars, adrvars, files, n_advance, n_reaction, exc>>

\* for k in range(num_steps): the name k is rebound to the next integer
ForNext ==
  /\ pc = "for"
  /\ range_it < num_steps
  /\ k' = [tag |-> "int", val |-> range_it]
  /\ range_it' = range_it + 1
  /\ calls' = <<>>
  /\ pc' = "t_incr"
  /\ UNCHANGED <<t, consts, F, nsvars, adrvars, files, n_advance, n_reaction, exc>>

ForEnd_Early ==
  /\ pc = "for"
  /\ range_it >= num_steps - 1
  /\ pc' = "done"
  /\ UNCHANGED <<range_it, k, t, consts, F, nsvars, adrvars, files, hist>>

\* range(num_steps) is exhausted
ForEnd ==
  /\ pc = "for"
  /\ range_it >= num_steps
  /\ pc' = "done"
  /\ UNCHANGED <<range_it, k, t, consts, F, nsvars, adrvars, files, hist>>

TimeIncr_NoAdd ==
  /\ pc = "t_incr"
  /\ pc' = "asm1"
  /\ UNCHANGED <<range_it, k, t, consts, F, nsvars, adrvars, files, hist>>

\* t += dt, then nss.advance() is entered
TimeIncr ==
  /\ pc = "t_incr"
  /\ t' = FlAdd(t, dt)
  /\ pc' = "asm1"
  /\ UNCHANGED <<range_it, k, consts, F, nsvars, adrvars, files, hist>>

\* ------------------------------------------------------------------------
\* NavierStokesSolver.advance
\* ------------------------------------------------------------------------
\* b1 = assemble(self.L1)
Asm1 ==
  /\ pc = "asm1"
  /\ b1' = Assemble(L1Reads(u_k, p_k), L1Coef)
  /\ pc' = "bc1"
  /\ UNCHANGED <<range_it, k, t, consts, F, DT, A1, A2, A3, b2, b3,
                 u_k, u_, p_k, p_, adrvars, files, hist>>

\* [bc.apply(b1) for bc in self.bcu]
BC1 ==
  /\ pc = "bc1"
  /\ b1' = ApplyBCs(b1, bcu)
  /\ pc' = "solve1"
  /\ UNCHANGED <<range_it, k, t, consts, F, DT, A1, A2, A3, b2, b3,
                 u_k, u_, p_k, p_, adrvars, files, hist>>

\* solve(self.A1, self.u_.vector(), b1, 'bicgstab', 'ilu') returns
Solve1 ==
  /\ pc = "solve1"
  /\ calls' = Append(calls, "step1")
  /\ u_' = Solution("step1", k.val, TRUE, SystemDeps(A1, b1))
  /\ pc' = "asm2"
  /\ UNCHANGED <<range_it, k, t, consts, F, DT, A1, A2, A3, b1, b2, b3,
                 u_k, p_k, p_, adrvars, files, n_advance, n_reaction, exc>>

\* the same call raises: nothing catches it.  The target vector is left
\* untouched or holds the last iterate.
Solve1Raises ==
  /\ pc = "solve1"
  /\ calls' = Append(calls, "step1")
  /\ u_' \in {u_, Solution("step1", k.val, FALSE, SystemDeps(A1, b1))}
  /\ pc' = "raised"
  /\ exc' = "step1"
  /\ UNCHANGED <<range_it, k, t, consts, F, DT, A1, A2, A3, b1, b2, b3,
                 u_k, p_k, p_, adrvars, files, n_advance, n_reaction>>

\* b2 = assemble(self.L2)
Asm2 ==
  /\ pc = "asm2"
  /\ b2' = Assemble(L2Reads(p_k, u_), L2Coef)
  /\ pc' = "bc2"
  /\ UNCHANGED <<range_it, k, t, consts, F, DT, A1, A2, A3, b1, b3,
                 u_k, u_, p_k, p_, adrvars, files, hist>>

\* [bc.apply(b2) for bc in self.bcp]
BC2 ==
  /\ pc = "bc2"
  /\ b2' = ApplyBCs(b2, bcp)
  /\ pc' = "solve2"
  /\ UNCHANGED <<range_it, k, t, consts, F, DT, A1, A2, A3, b1, b3,
                 u_k, u_, p_k, p_, adrvars, files, hist>>

\* solve(self.A2, self.p_.vector(), b2, 'bicgstab', 'ilu') returns
Solve2 ==
  /\ pc = "solve2"
  /\ calls' = Append(calls, "step2")
  /\ p_' = Solution("step2", k.val, TRUE, SystemDeps(A2, b2))
  /\ pc' = "asm3"
  /\ UNCHANGED <<range_it, k, t, consts, F, DT, A1, A2, A3, b1, b2, b3,
                 u_k, u_, p_k, adrvars, files, n_advance, n_reaction, exc>>

Solve2Raises_Swallowed ==
  /\ pc = "solve2"
  /\ calls' = Append(calls, "step2")
  /\ p_' \in {p_, Solution("step2", k.val, FALSE, SystemDeps(A2, b2))}
  /\ pc' = "asm3"
  /\ exc' = "step2"
  /\ UNCHANGED <<range_it, k, t, consts, F, DT, A1, A2, A3, b1, b2, b3,
                 u_k, u_, p_k, adrvars, files, n_advance, n_reaction>>

Solve2Raises ==
  /\ pc = "solve2"
  /\ calls' = Append(calls, "step2")
  /\ p_' \in {p_, Solution("step2", k.val, FALSE, SystemDeps(A2, b2))}
  /\ pc' = "raised"
  /\ exc' = "step2"
  /\ UNCHANGED <<range_it, k, t, consts, F, DT, A1, A2, A3, b1, b2, b3,
                 u_k, u_, p_k, adrvars, files, n_advance, n_reaction>>

Asm3_NoSolve ==
  /\ pc = "asm3"
  /\ b3' = Assemble(L3Reads(u_, p_, p_k), L3Coef)
  /\ pc' = "update_prev"
  /\ UNCHANGED <<range_it, k, t, consts, F, DT, A1, A2, A3, b1, b2,
                 u_k, u_, p_k, p_, adrvars, files, hist>>

\* b3 = assemble(self.L3); the solve follows with no boundary condition
Asm3 ==
  /\ pc = "asm3"
  /\ b3' = Assemble(L3Reads(u_, p_, p_k), L3Coef)
  /\ pc' = "solve3"
  /\ UNCHANGED <<range_it, k, t, consts, F, DT, A1, A2, A3, b1, b2,
                 u_k, u_, p_k, p_, adrvars, files, hist>>

\* solve(self.A3, self.u_.vector(), b3, 'cg', 'sor') returns
Solve3 ==
  /\ pc = "solve3"
  /\ calls' = Append(calls, "step3")
  /\ u_' = Solution("step3", k.val, TRUE, SystemDeps(A3, b3))
  /\ pc' = "update_prev"
  /\ UNCHANGED <<range_it, k, t, consts, F, DT, A1, A2, A3, b1, b2, b3,
                 u_k, p_k, p_, adrvars, files, n_advance, n_reaction, exc>>

Solve3Raises ==
  /\ pc = "solve3"
  /\ calls' = Append(calls, "step3")
  /\ u_' \in {u_, Solution("step3", k.val, FALSE, SystemDeps(A3, b3))}
  /\ pc' = "raised"
  /\ exc' = "step3"
  /\ UNCHANGED <<range_it, k, t, consts, F, DT, A1, A2, A3, b1, b2, b3,
                 u_k, p_k, p_, adrvars, files, n_advance, n_reaction>>

\* self.u_k.assign(self.u_); self.p_k.assign(self.p_); advance() returns and
\* its locals b1, b2, b3 are gone
UpdatePrev ==
  /\ pc = "update_prev"
  /\ u_k' = u_
  /\ p_k' = p_
  /\ b1' = NoVector /\ b2' = NoVector /\ b3' = NoVector
  /\ n_advance' = n_advance + 1
  /\ pc' = "copy_w"
  /\ UNCHANGED <<range_it, k, t, consts, F, DT, A1, A2, A3, u_, p_,
                 adrvars, files, calls, n_reaction, exc>>

\* ------------------------------------------------------------------------
\* The advection-diffusion-reaction part of an iteration
\* ------------------------------------------------------------------------
CopyW_Tentative ==
  /\ pc = "copy_w"
  /\ w' = [u_k EXCEPT !.by = "step1"]
  /\ pc' = "solveF"
  /\ UNCHANGED <<range_it, k, t, consts, F, nsvars, u, u_n, files, hist>>

\* w.assign(nss.u_k)
CopyW ==
  /\ pc = "copy_w"
  /\ w' = u_k
  /\ pc' = "solveF"
  /\ UNCHANGED <<range_it, k, t, consts, F, nsvars, u, u_n, files, hist>>

\* solve(F == 0, u) returns
SolveF ==
  /\ pc = "solveF"
  /\ calls' = Append(calls, "reaction")
  /\ n_reaction' = n_reaction + 1
  /\ u' = Solution("reaction", k.val, TRUE, FDeps(FReads(u, u_n, w)))
  /\ pc' = "out_test"
  /\ UNCHANGED <<range_it, k, t, consts, F, nsvars, w, u_n, files, n_advance, exc>>

\* the Newton solver raises; u is untouched or holds the last iterate
SolveFRaises ==
  /\ pc = "solveF"
  /\ calls' = Append(calls, "reaction")
  /\ n_reaction' = n_reaction + 1
  /\ u' \in {u, Solution("reaction", k.val, FALSE, FDeps(FReads(u, u_n, w)))}
  /\ pc' = "raised"
  /\ exc' = "reaction"
  /\ UNCHANGED <<range_it, k, t, consts, F, nsvars, w, u_n, files, n_advance>>

WriteDue_LastToo(i) == ModIsZero(i, out_interval) \/ i = num_steps - 1

\* k%out_interval ==0 or k==num_steps
WriteDue(i) == ModIsZero(i, out_interval) \/ i = num_steps

\* the condition of the if statement is true
OutTestTrue ==
  /\ pc = "out_test"
  /\ WriteDue(k.val)
  /\ pc' = "write1"
  /\ UNCHANGED <<range_it, k, t, consts, F, nsvars, adrvars, files, hist>>

\* the condition is false: the if body is skipped
OutTestFalse ==
  /\ pc = "out_test"
  /\ ~WriteDue(k.val)
  /\ pc' = "update_un"
  /\ UNCHANGED <<range_it, k, t, consts, F, nsvars, adrvars, files, hist>>

\* component i of u.split() paired with the time, as written by file << (_u_i, t)
Record(i) == [comp |-> i, from |-> u, t |-> t, iter |-> k.val]

\* vtkfile_u_1 << (_u_1, t)
Write1 ==
  /\ pc = "write1"
  /\ vtkfile_u_1' = Append(vtkfile_u_1, Record(1))
  /\ pc' = "write2"
  /\ UNCHANGED <<range_it, k, t, consts, F, nsvars, adrvars,
                 vtkfile_u_2, vtkfile_u_3, hist>>

\* vtkfile_u_2 << (_u_2, t)
Write2 ==
  /\ pc = "write2"
  /\ vtkfile_u_2' = Append(vtkfile_u_2, Record(2))
  /\ pc' = "write3"
  /\ UNCHANGED <<range_it, k, t, consts, F, nsvars, adrvars,
                 vtkfile_u_1, vtkfile_u_3, hist>>

\* vtkfile_u_3 << (_u_3, t), then the print
Write3 ==
  /\ pc = "write3"
  /\ vtkfile_u_3' = Append(vtkfile_u_3, Record(3))
  /\ pc' = "update_un"
  /\ UNCHANGED <<range_it, k, t, consts, F, nsvars, adrvars,
                 vtkfile_u_1, vtkfile_u_2, hist>>

UpdateUn_Forgotten ==
  /\ pc = "update_un"
  /\ pc' = "progress"
  /\ UNCHANGED <<range_it, k, t, consts, F, nsvars, adrvars, files, hist>>

\* u_n.assign(u)
UpdateUn ==
  /\ pc = "update_un"
  /\ u_n' = u
  /\ pc' = "progress"
  /\ UNCHANGED <<range_it, k, t, consts, F, nsvars, w, u, files, hist>>

\* progress.update(t / T), then back to the loop head
ProgressUpdate ==
  /\ pc = "progress"
  /\ pc' = "for"
  /\ UNCHANGED <<range_it, k, t, consts, F, nsvars, adrvars, files, hist>>

Next ==
  \/ ForNext \/ ForEnd \/ TimeIncr
  \/ Asm1 \/ BC1 \/ Solve1 \/ Solve1Raises
  \/ Asm2 \/ BC2 \/ Solve2 \/ Solve2Raises
  \/ Asm3 \/ Solve3 \/ Solve3Raises
  \/ UpdatePrev
  \/ CopyW \/ SolveF \/ SolveFRaises
  \/ OutTestTrue \/ OutTestFalse
  \/ Write1 \/ Write2 \/ Write3
  \/ UpdateUn \/ ProgressUpdate

Spec == Init /\ [][Next]_vars

\* ------------------------------------------------------------------------
\* Properties
\* ------------------------------------------------------------------------
IsPrefix(s, r) == Len(s) <= Len(r) /\ \A i \in 1..Len(s) : s[i] = r[i]

\* the four solver calls of one iteration, in source order
Order == <<"step1", "step2", "step3", "reaction">>

AfterReaction == {"out_test", "write1", "write2", "write3", "update_un", "progress"}

InAdvance == {"asm1", "bc1", "solve1", "asm2", "bc2", "solve2", "asm3",
              "solve3", "update_prev"}

\* a field was produced by the converged solve `name` of iteration i
IsFrom(x, name, i) == x.by = name /\ x.at = i /\ x.ok

\* C1: in every iteration the solver calls made so far are an initial part of
\* step 1, step 2, step 3, reaction, each at most once and in that order; an
\* iteration that gets past the reaction solve has made all four; the
\* reaction solve starts only after advance() has returned, and advance()
\* has returned exactly once per iteration.
C1_SolveOrder ==
  /\ IsPrefix(calls, Order)
  /\ pc \in AfterReaction => calls = Order
  /\ pc \in InAdvance \cup {"t_incr"} => n_advance = k.val /\ n_reaction = k.val
  /\ pc = "update_prev" => calls = <<"step1", "step2", "step3">>
  /\ pc \in {"copy_w", "solveF"} =>
       calls = <<"step1", "step2", "step3">> /\ n_advance = k.val + 1
                                             /\ n_reaction = k.val
  /\ pc \in AfterReaction => n_advance = k.val + 1 /\ n_reaction = k.val + 1
  /\ pc \in {"for", "done"} => n_advance = range_it /\ n_reaction = range_it

C1_Witness == pc = "progress" /\ k.val = 3 /\ calls = Order

\* C2: no Navier-Stokes field, and no vector assembled inside advance(),
\* depends on the concentrations u, u_n, on the sources f_1, f_2, f_3 or on
\* any other coefficient of F; and w changes only by the copy w.assign(nss.u_k).
AdrData == {"u0", "u_n0"} \cup FCoef

NsDeps ==
  u_k.deps \cup u_.deps \cup p_k.deps \cup p_.deps
    \cup UNION {UNION {b.rd[x].deps : x \in DOMAIN b.rd} : b \in {b1, b2, b3}}

C2_OneWay ==
  /\ [](NsDeps \cap AdrData = {})
  /\ [][w' # w => pc = "copy_w" /\ w' = u_k /\ UNCHANGED nsvars]_vars

C2_Witness ==
  /\ pc = "asm1" /\ k.val = 2
  /\ "f_1" \in u.deps /\ "u_k0" \in u.deps /\ w = u_k /\ u_k.by = "step3"

\* C3 as stated: at each of the three solve calls of advance() Dirichlet
\* data has been applied to the assembled right-hand side.
C3_AllThreeApplyBCs ==
  /\ pc = "solve1" => b1.asm /\ b1.bcs = bcu
  /\ pc = "solve2" => b2.asm /\ b2.bcs = bcp
  /\ pc = "solve3" => b3.asm /\ b3.bcs # {}

\* C3 as amended: steps 1 and 2 solve a system whose matrix and right-hand
\* side carry the velocity, respectively pressure, boundary conditions;
\* step 3 solves a system to which no boundary condition was applied.
C3_StepsOneTwoApplyBCs ==
  /\ pc = "solve1" => b1.asm /\ b1.bcs = bcu /\ A1.bcs = bcu
  /\ pc = "solve2" => b2.asm /\ b2.bcs = bcp /\ A2.bcs = bcp
  /\ pc = "solve3" => b3.asm /\ b3.bcs = {} /\ A3.bcs = {}

C3_Witness == pc = "solve3" /\ k.val = 1 /\ u_.by = "step1" /\ p_.by = "step2"

\* the records of a file written in iteration i
WrittenIn(file, i) == {j \in 1..Len(file) : file[j].iter = i}

\* i is an integer multiple of the fraction r
IsMultipleOf(i, r) == \E m \in 0..i : m * r.n = i * r.d

EvenlySpaced(file) ==
  \A j \in 1..(Len(file) - 1) :
    (file[j + 1].iter - file[j].iter) * out_interval.d = out_interval.n

\* C4: once an iteration is past its output block, it has written exactly
\* when its index is a multiple of out_interval; consecutive records of a
\* file are out_interval iterations apart; and outside the three write
\* statements the three files hold the same number of records, record j of
\* each file being component 1, 2, 3 of the same u with the same time.
C4_FixedSampling ==
  /\ pc \in {"update_un", "progress"} =>
       (WrittenIn(vtkfile_u_1, k.val) # {} <=> IsMultipleOf(k.val, out_interval))
  /\ EvenlySpaced(vtkfile_u_1)
  /\ pc \notin {"write2", "write3"} =>
       /\ Len(vtkfile_u_2) = Len(vtkfile_u_1)
       /\ Len(vtkfile_u_3) = Len(vtkfile_u_1)
       /\ \A j \in 1..Len(vtkfile_u_1) :
            /\ vtkfile_u_1[j].comp = 1
            /\ vtkfile_u_2[j] = [vtkfile_u_1[j] EXCEPT !.comp = 2]
            /\ vtkfile_u_3[j] = [vtkfile_u_1[j] EXCEPT !.comp = 3]

C4_Witness ==
  /\ pc = "update_un" /\ k.val = 10
  /\ Len(vtkfile_u_1) = 3 /\ Len(vtkfile_u_3) = 3
  /\ vtkfile_u_3[3].iter = 10 /\ vtkfile_u_3[2].iter = 5

\* C5: when the reaction solve is about to run in iteration k, w is the
\* converged result of step 3 of that iteration's advance(), advance() has
\* returned k + 1 times and k reaction solves have been started; once the
\* reaction solve has started, the two counts are equal.
C5_LockStep ==
  /\ pc = "solveF" =>
       /\ IsFrom(w, "step3", k.val)
       /\ n_advance = k.val + 1 /\ n_reaction = k.val
  /\ pc \in AfterReaction \/ exc = "reaction" =>
       IsFrom(w, "step3", k.val) /\ n_advance = n_reaction

C5_Witness == pc = "solveF" /\ k.val = 2 /\ w.by = "step3" /\ n_reaction = 2

\* C6: at the first reaction solve u_n is the zero function; at the reaction
\* solve of iteration k > 0 it is the converged solution of the reaction
\* solve of iteration k - 1; and u_n changes only in the statement
\* u_n.assign(u), which copies u after all four solves and after any write
\* of the iteration.
C6_PreviousLevel ==
  /\ [](pc = "solveF" =>
          IF k.val = 0 THEN u_n = ZeroFunction("u_n0")
                       ELSE IsFrom(u_n, "reaction", k.val - 1))
  /\ [][u_n' # u_n =>
          /\ pc = "update_un" /\ u_n' = u /\ calls = Order
          /\ IsFrom(u, "reaction", k.val)
          /\ (IsMultipleOf(k.val, out_interval) =>
                WrittenIn(vtkfile_u_3, k.val) # {})]_vars

C6_Witness == pc = "solveF" /\ k.val = 2 /\ u_n.by = "reaction" /\ u_n.at = 1

\* C7: once a solver call has raised, the script is out of the loop and
\* nothing changes any more: the failing call is the last call made, it was
\* made once, no later substep or iteration runs, and no file holds a record
\* of the failing iteration or of a later one.
C7_FailurePropagates ==
  /\ [](exc # "none" =>
          /\ pc = "raised"
          /\ IsPrefix(calls, Order) /\ calls # <<>> /\ calls[Len(calls)] = exc
          /\ range_it = k.val + 1
          /\ \A file \in {vtkfile_u_1, vtkfile_u_2, vtkfile_u_3} :
               \A j \in 1..Len(file) : file[j].iter < k.val)
  /\ [](pc = "raised" => exc # "none")
  /\ [][exc # "none" => UNCHANGED vars]_vars

C7_Witness ==
  /\ pc = "raised" /\ exc = "step2" /\ k.val = 5
  /\ calls = <<"step1", "step2">> /\ Len(vtkfile_u_1) = 1

\* C8: the Constant object nss.DT and the Constant object the residual F
\* captured under the name k both hold dt = T / num_steps, the float
\* 0x1.0624dd2f1a9fcp-10 (0.001), in every state, also while the name k is bound to an integer of the loop.
C8_StepSizeFixed ==
  /\ dt = <<1048, 1207959, 1157628>>
  /\ consts[DT] = dt
  /\ consts[F.k] = dt
  /\ k.tag = "int" => k.val \in 0..(num_steps - 1) /\ F.k = kConst

C8_Witness == pc = "solveF" /\ k = [tag |-> "int", val |-> 7] /\ consts[F.k] = dt

\* u_k and p_k as advance() finds them in iteration i
IsPrevU(x, i) == IF i = 0 THEN x = ZeroFunction("u_k0") ELSE IsFrom(x, "step3", i - 1)

IsPrevP(x, i) == IF i = 0 THEN x = ZeroFunction("p_k0") ELSE IsFrom(x, "step2", i - 1)

\* C9: from entry to advance() until its two assign statements, also when a
\* solve raises, u_k and p_k are the fields of the previous iteration; the
\* right-hand side of step 1 read those, that of step 2 read the step-1
\* result of this iteration and the old p_k, that of step 3 read the step-2
\* pressure of this iteration, the step-1 velocity and the old p_k; on return
\* u_k = u_ is the step-3 velocity and p_k = p_ the step-2 pressure.
C9_PreviousLevelFrame ==
  /\ pc \in InAdvance \/ exc \in {"step1", "step2", "step3"} =>
       IsPrevU(u_k, k.val) /\ IsPrevP(p_k, k.val)
  /\ b1.asm => b1.rd.u_k = u_k /\ b1.rd.p_k = p_k /\ pc \in InAdvance \cup {"raised"}
  /\ b2.asm => /\ IsFrom(b2.rd.u_, "step1", k.val)
               /\ b2.rd.p_k = p_k /\ IsPrevP(b2.rd.p_k, k.val)
  /\ b3.asm => /\ IsFrom(b3.rd.p_, "step2", k.val)
               /\ IsFrom(b3.rd.u_, "step1", k.val)
               /\ b3.rd.p_k = p_k /\ IsPrevP(b3.rd.p_k, k.val)
  /\ pc = "copy_w" =>
       /\ u_k = u_ /\ p_k = p_
       /\ IsFrom(u_k, "step3", k.val) /\ IsFrom(p_k, "step2", k.val)

C9_Witness ==
  /\ pc = "update_prev" /\ k.val = 2
  /\ u_.at = 2 /\ u_k.at = 1 /\ p_.at = 2 /\ p_k.at = 1 /\ b3.asm

\* C10: when the last iteration (k = num_steps - 1) is past its output
\* block, each of the three files ends with a record of that iteration.
C10_FinalStepSaved ==
  pc \in {"update_un", "progress"} /\ k.val = num_steps - 1 =>
    \A file \in {vtkfile_u_1, vtkfile_u_2, vtkfile_u_3} :
      file # <<>> /\ file[Len(file)].iter = num_steps - 1

\* ------------------------------------------------------------------------
\* The loop when every solver call returns
\* ------------------------------------------------------------------------
NextReturns ==
  \/ ForNext \/ ForEnd \/ TimeIncr
  \/ Asm1 \/ BC1 \/ Solve1
  \/ Asm2 \/ BC2 \/ Solve2
  \/ Asm3 \/ Solve3
  \/ UpdatePrev
  \/ CopyW \/ SolveF
  \/ OutTestTrue \/ OutTestFalse
  \/ Write1 \/ Write2 \/ Write3
  \/ UpdateUn \/ ProgressUpdate

\* the interpreter keeps executing the single-threaded script
SpecReturns == Init /\ [][NextReturns]_vars /\ WF_vars(NextReturns)

\* x <= y
Leq(x, y) ==
  \/ x[1] < y[1]
  \/ x[1] = y[1] /\ x[2] < y[2]
  \/ x[1] = y[1] /\ x[2] = y[2] /\ x[3] <= y[3]

\* |x - y| <= e * 2^-62
Near(x, y, e) == Leq(x, Add(y, <<0, 0, e>>)) /\ Leq(y, Add(x, <<0, 0, e>>))

\* x is n * dt up to the rounding of n additions below 1, each at most 2^-54
IsLevel(x, n) == Near(x, MulInt(dt, n), n * 2^8)

\* the loop has ended after num_steps iterations, advance() calls and
\* reaction solves, without an exception
Completed ==
  /\ range_it = num_steps /\ k = [tag |-> "int", val |-> num_steps - 1]
  /\ n_advance = num_steps /\ n_reaction = num_steps
  /\ calls = Order /\ exc = "none"

\* C11 as stated: when the loop has ended, it has made num_steps iterations,
\* advance() calls and reaction solves, and t = num_steps * dt = T.
C11_EndsAtT ==
  pc = "done" => Completed /\ t = FlMulInt(num_steps, dt) /\ t = T

\* C11 as amended: when every solver call returns the loop ends; it ends
\* only after num_steps iterations, advance() calls and reaction solves; and
\* t, to which dt has been added in every iteration, is then T + 3 * 2^-53
\* (0.5000000000000003), although num_steps * dt = T.
C11_Terminates ==
  /\ <>(pc = "done")
  /\ [](pc = "done" =>
          /\ Completed
          /\ IsLevel(t, num_steps)
          /\ t = Add(T, <<0, 0, 3 * 2^9>>)
          /\ FlMulInt(num_steps, dt) = T)
  /\ [](pc # "raised")
  /\ [][pc = "done" => UNCHANGED vars]_vars

C11_Witness == pc = "done" /\ n_advance = num_steps /\ t # T

LastOf(file) == file[Len(file)]

\* C12 as stated: the records written in iteration k hold the u solved in
\* that iteration and t = (k + 1) * dt.
C12_RecordAtProduct ==
  pc = "update_un" /\ WrittenIn(vtkfile_u_3, k.val) # {} =>
    \A file \in {vtkfile_u_1, vtkfile_u_2, vtkfile_u_3} :
      /\ LastOf(file).from = u /\ IsFrom(u, "reaction", k.val)
      /\ LastOf(file).t = FlMulInt(k.val + 1, dt)

\* C12 as amended: the records written in iteration k hold the u solved in
\* that iteration, while u_n is still the previous level, and the value t
\* has after the additions t += dt of iterations 0..k, which is (k + 1) * dt
\* up to the accumulated rounding and in general not that product; the
\* first record is at exactly dt, no record holds t = 0 or the zero initial
\* state, and a record once written is never changed.
C12_RecordTimeLevel ==
  /\ [](pc \notin {"for", "t_incr", "done"} => IsLevel(t, k.val + 1))
  /\ [](pc = "update_un" /\ WrittenIn(vtkfile_u_3, k.val) # {} =>
          /\ u_n # u
          /\ \A file \in {vtkfile_u_1, vtkfile_u_2, vtkfile_u_3} :
               /\ LastOf(file).iter = k.val
               /\ LastOf(file).from = u /\ IsFrom(u, "reaction", k.val)
               /\ LastOf(file).t = t /\ t # FlZero)
  /\ [](\A file \in {vtkfile_u_1, vtkfile_u_2, vtkfile_u_3} :
          file # <<>> => file[1].iter = 0 /\ file[1].t = dt
                           /\ file[1].from.by = "reaction")
  /\ [][\A i \in 1..3 : IsPrefix(files[i], files[i]')]_vars

C12_Witness ==
  /\ pc = "update_un" /\ k.val = 10 /\ Len(vtkfile_u_3) = 3
  /\ vtkfile_u_3[3].t = t /\ t # FlMulInt(11, dt) /\ vtkfile_u_3[1].t = dt

====
